---- MODULE Spec2Model ----
(***************************************************************************)
(* A model of src/main.py: the URL validator, the client resolver          *)
(* (get_yt_object) and the three Flask handlers.  The pytubefix library,   *)
(* the operating system and the video platform are the environment: every  *)
(* call into them either returns or raises an exception whose message is   *)
(* drawn from LibMessages.                                                 *)
(*                                                                         *)
(* Python str values are TLA+ strings; the character at position i of s is *)
(* SubSeq(s, i, i).  Python values that may be None, a str or an int are   *)
(* records [t, s, n].                                                      *)
(***************************************************************************)
EXTENDS Integers, Sequences, FiniteSets, TLC

VARIABLES
    request,    \* the request being served: handler, path parameter, JSON body
    video,      \* what the platform holds for the requested video
    calls,      \* the library / OS calls the handler made, in order
    resolved,   \* what get_yt_object returned or raised for this request
    response,   \* the HTTP response the handler returned (or the exception that escaped)
    vurl,       \* validator harness: the string handed to is_valid_youtube_url
    vresult     \* validator harness: whether it has returned, and what

vars == <<request, video, calls, resolved, response, vurl, vresult>>

(***************************************************************************)
(* Bounds of the model.                                                    *)
(***************************************************************************)
MaxTail == 3        \* characters after the host part of a validator test string
MaxStreams == 3     \* streams a video offers

(***************************************************************************)
(* Python values and strings.                                              *)
(***************************************************************************)
PyNone == [t |-> "none", s |-> "", n |-> 0]
PyStr(x) == [t |-> "str", s |-> x, n |-> 0]
PyInt(k) == [t |-> "int", s |-> "", n |-> k]

\* bool(v) as `if not url` and `if po_token and visitor_data` evaluate it
Truthy(v) ==
    CASE v.t = "none" -> FALSE
      [] v.t = "str" -> v.s # ""
      [] v.t = "int" -> v.n # 0

CharAt(s, i) == SubSeq(s, i, i)

UpperCase == "ABCDEFGHIJKLMNOPQRSTUVWXYZ"
LowerCase == "abcdefghijklmnopqrstuvwxyz"
Digits == "0123456789"

InString(c, s) == \E i \in 1..Len(s) : CharAt(s, i) = c

IndexIn(c, s) == CHOOSE i \in 1..Len(s) : CharAt(s, i) = c

\* ord(c) for the ASCII letters, digits and the punctuation a label may hold
\* (the order sorted() compares str by)
Punctuation == " -./_"
PunctuationOrd == <<32, 45, 46, 47, 95>>
Ord(c) ==
    IF InString(c, Digits) THEN 47 + IndexIn(c, Digits)
    ELSE IF InString(c, UpperCase) THEN 64 + IndexIn(c, UpperCase)
    ELSE IF InString(c, LowerCase) THEN 96 + IndexIn(c, LowerCase)
    ELSE PunctuationOrd[IndexIn(c, Punctuation)]

LowerChar(c) ==
    IF InString(c, UpperCase)
    THEN CharAt(LowerCase, IndexIn(c, UpperCase))
    ELSE c

RECURSIVE lower(_)
lower(s) == IF s = "" THEN "" ELSE LowerChar(CharAt(s, 1)) \o lower(SubSeq(s, 2, Len(s)))

\* Python's `sub in s`
Contains(sub, s) ==
    \E i \in 1..(Len(s) - Len(sub) + 1) : SubSeq(s, i, i + Len(sub) - 1) = sub

\* Python's s.split(sep) for a non-empty sep, as a sequence of strings
RECURSIVE split(_, _)
split(s, sep) ==
    IF ~Contains(sep, s) THEN <<s>>
    ELSE LET i == CHOOSE j \in 1..(Len(s) - Len(sep) + 1) :
                    /\ SubSeq(s, j, j + Len(sep) - 1) = sep
                    /\ \A k \in 1..(j - 1) : SubSeq(s, k, k + Len(sep) - 1) # sep
         IN <<SubSeq(s, 1, i - 1)>> \o split(SubSeq(s, i + Len(sep), Len(s)), sep)

\* a < b for two str, as Python compares them (code point by code point)
RECURSIVE StrLess(_, _)
StrLess(a, b) ==
    IF b = "" THEN FALSE
    ELSE IF a = "" THEN TRUE
    ELSE IF CharAt(a, 1) # CharAt(b, 1) THEN Ord(CharAt(a, 1)) < Ord(CharAt(b, 1))
    ELSE StrLess(SubSeq(a, 2, Len(a)), SubSeq(b, 2, Len(b)))

(***************************************************************************)
(* The URL validator (main.py, is_valid_youtube_url).                      *)
(***************************************************************************)
\* \w for ASCII input, and the class [\w-]
IsWordChar(c) == InString(c, UpperCase) \/ InString(c, LowerCase) \/ InString(c, Digits) \/ c = "_"
IsTokenChar(c) == IsWordChar(c) \/ c = "-"
\* \s
IsSpace(c) == c \in {" ", "\t", "\n", "\r"}

\* the regex's $ at position e (characters consumed so far): the end of the
\* string, or just before a newline that ends the string
AtDollar(url, e) ==
    \/ e = Len(url)
    \/ e = Len(url) - 1 /\ CharAt(url, Len(url)) = "\n"

\* re.match(r"^(https?://)?(www\.)?youtube\.com/watch\?v=[\w-]+(&\S*)?$", url) is not None:
\* some way of matching the pattern's parts against url exists
is_valid_youtube_url(url) ==
    \E scheme \in {"", "http://", "https://"}, www \in {"", "www."} :
        LET head == scheme \o www \o "youtube.com/watch?v="
            h == Len(head)
            n == Len(url)
        IN /\ n >= h
           /\ SubSeq(url, 1, h) = head
           /\ \E k \in 1..(n - h) :
                /\ \A i \in (h + 1)..(h + k) : IsTokenChar(CharAt(url, i))
                /\ \E e \in (h + k)..n :
                     /\ e > h + k =>
                          /\ CharAt(url, h + k + 1) = "&"
                          /\ \A i \in (h + k + 2)..e : ~IsSpace(CharAt(url, i))
                     /\ AtDollar(url, e)

(***************************************************************************)
(* The environment: library calls and what they may raise.                 *)
(***************************************************************************)
\* str(e) of the exceptions the library or the OS may raise
LibMessages == {"a BOT!", "timeout", "bo t"}

\* one call into the library or the OS: the operation, the session it is made
\* on ("manual", "WEB", "default"; "" for none), its argument, whether it
\* raised, and the message of what it raised
Call(op, on, arg) == [op |-> op, on |-> on, arg |-> arg, raised |-> FALSE, msg |-> ""]
Raise(op, on, arg, m) == [op |-> op, on |-> on, arg |-> arg, raised |-> TRUE, msg |-> m]

\* a run of get_yt_object: its calls, and the session returned or the
\* exception raised (msg is its str(), from the index of the call that raised it)
Returned(cs, yt) == [called |-> TRUE, calls |-> cs, ok |-> TRUE, yt |-> yt, msg |-> "", from |-> 0]
Raised(cs, k) == [called |-> TRUE, calls |-> cs, ok |-> FALSE, yt |-> "none", msg |-> cs[k].msg, from |-> k]
NoResolve == [called |-> FALSE, calls |-> <<>>, ok |-> FALSE, yt |-> "none", msg |-> "", from |-> 0]

(***************************************************************************)
(* The client resolver (main.py, get_yt_object).                           *)
(***************************************************************************)
\* line 14: if po_token and visitor_data
BothSupplied(po_token, visitor_data) == Truthy(po_token) /\ Truthy(visitor_data)

\* a faulty variant of IsBotDetection: the message is not lower-cased
IsBotDetectionCaseSensitive(msg) == Contains("bot", msg)

\* line 35: 'bot' in str(e).lower()
IsBotDetection(msg) == Contains("bot", lower(msg))

\* lines 15-25: the session with the caller's po_token and visitor_data
ManualRuns(url) ==
    LET it == Call("InnerTube", "manual", "WEB")
        yt == Call("YouTube", "manual", url)
    IN {Raised(<<Raise("InnerTube", "manual", "WEB", m)>>, 1) : m \in LibMessages}
       \cup {Raised(<<it, Raise("YouTube", "manual", url, m)>>, 2) : m \in LibMessages}
       \cup {Raised(<<it, yt, Raise("title", "manual", "", m)>>, 3) : m \in LibMessages}
       \cup {Returned(<<it, yt, Call("title", "manual", "")>>, "manual")}

\* a faulty variant of WebFailure: the fallback is taken whatever the message
WebFailureAlwaysFallsBack(url, cs) ==
    {Raised(Append(cs, Raise("YouTube", "default", url, f)), Len(cs) + 1) : f \in LibMessages}
    \cup {Returned(Append(cs, Call("YouTube", "default", url)), "default")}

\* lines 36-46: the except branch of the WEB attempt, cs the calls so far, the
\* last of which raised e
WebFailure(url, cs) ==
    IF IsBotDetection(cs[Len(cs)].msg)
    THEN {Raised(Append(cs, Raise("YouTube", "default", url, f)), Len(cs) + 1) : f \in LibMessages}
         \cup {Returned(Append(cs, Call("YouTube", "default", url)), "default")}
    ELSE {Raised(cs, Len(cs))}

\* a faulty variant of WebRuns: the WEB session is returned without reading
\* its title
WebRunsUnprobed(url) ==
    UNION {WebFailure(url, <<Raise("YouTube", "WEB", url, m)>>) : m \in LibMessages}
    \cup {Returned(<<Call("YouTube", "WEB", url)>>, "WEB")}

\* lines 27-46: the WEB client, probed, with the fallback to the default client
WebRuns(url) ==
    LET yt == Call("YouTube", "WEB", url)
    IN UNION {WebFailure(url, <<Raise("YouTube", "WEB", url, m)>>) : m \in LibMessages}
       \cup UNION {WebFailure(url, <<yt, Raise("title", "WEB", "", m)>>) : m \in LibMessages}
       \cup {Returned(<<yt, Call("title", "WEB", "")>>, "WEB")}

\* every run of get_yt_object(url, po_token, visitor_data)
get_yt_object(url, po_token, visitor_data) ==
    IF BothSupplied(po_token, visitor_data) THEN ManualRuns(url) ELSE WebRuns(url)

(***************************************************************************)
(* Streams and metadata of a video, as the library reports them.           *)
(***************************************************************************)
Stream(p, ext, res) == [progressive |-> p, ext |-> ext, resolution |-> res]

StreamKinds ==
    {Stream(TRUE, "mp4", PyStr("720p")), Stream(TRUE, "mp4", PyStr("480p")),
     Stream(TRUE, "mp4", PyNone), Stream(TRUE, "mp4", PyStr("")),
     Stream(FALSE, "mp4", PyStr("1080p")), Stream(FALSE, "webm", PyStr("720p"))}

NoMeta == [title |-> "", author |-> "", length |-> 0, views |-> 0,
           description |-> "", publish_date |-> ""]
Metas ==
    {[title |-> "T", author |-> "A", length |-> 120, views |-> 5,
      description |-> "D", publish_date |-> "X"],
     [title |-> "", author |-> "B", length |-> 0, views |-> 0,
      description |-> "", publish_date |-> "Y"]}

NoVideo == [streams |-> <<>>, meta |-> NoMeta]

\* yt.streams.filter(progressive=True, file_extension='mp4')
FilterProgressiveMp4(streams) ==
    SelectSeq(streams, LAMBDA st : st.progressive /\ st.ext = "mp4")
\* yt.streams.filter(file_extension='mp4')
FilterMp4(streams) == SelectSeq(streams, LAMBDA st : st.ext = "mp4")
\* yt.streams.filter(progressive=True, file_extension='mp4', resolution=resolution)
FilterProgressiveMp4At(streams, resolution) ==
    SelectSeq(streams, LAMBDA st : st.progressive /\ st.ext = "mp4"
                                    /\ st.resolution = PyStr(resolution))

(***************************************************************************)
(* download_video (main.py lines 48-71).                                   *)
(***************************************************************************)
NOT_FOUND == "Video with the specified resolution not found."

\* line 59: f"./downloads/{url.split('v=')[1].split('&')[0]}"
OutDir(url) == "./downloads/" \o split(split(url, "v=")[2], "&")[1]

DownloadResult(ok, m, cs, r) == [success |-> ok, error_message |-> m, calls |-> cs, resolved |-> r]
\* the except of line 70, the last call of cs having raised
DownloadFailed(cs, r) == DownloadResult(FALSE, cs[Len(cs)].msg, cs, r)

\* lines 52-69, on the session of run r
DownloadOn(url, resolution, r, v) ==
    LET on == r.yt
        listed == Append(r.calls, Call("streams.filter", on, "progressive mp4"))
        looked == Append(listed, Call("streams.filter.first", on, resolution))
        found == FilterProgressiveMp4At(v.streams, resolution) # <<>>
        out_dir == OutDir(url)
        made == Append(looked, Call("os.makedirs", "", out_dir))
    IN {DownloadFailed(Append(r.calls, Raise("streams.filter", on, "progressive mp4", m)), r)
            : m \in LibMessages}
       \cup {DownloadFailed(Append(listed, Raise("streams.filter.first", on, resolution, m)), r)
            : m \in LibMessages}
       \cup IF found
            THEN {DownloadFailed(Append(looked, Raise("os.makedirs", "", out_dir, m)), r)
                    : m \in LibMessages}
                 \cup {DownloadFailed(Append(made, Raise("stream.download", on, out_dir, m)), r)
                    : m \in LibMessages}
                 \cup {DownloadResult(TRUE, "", Append(made, Call("stream.download", on, out_dir)), r)}
            ELSE {DownloadFailed(Append(looked, Raise("streams.filter", on, "mp4 res", m)), r)
                    : m \in LibMessages}
                 \cup {DownloadResult(FALSE, NOT_FOUND,
                                      Append(looked, Call("streams.filter", on, "mp4 res")), r)}

\* every run of download_video(url, resolution, po_token, visitor_data) on video v
download_video(url, resolution, po_token, visitor_data, v) ==
    UNION {IF r.ok THEN DownloadOn(url, resolution, r, v)
           ELSE {DownloadResult(FALSE, r.msg, r.calls, r)}
             : r \in get_yt_object(url, po_token, visitor_data)}

(***************************************************************************)
(* get_video_info (main.py lines 73-87).                                   *)
(***************************************************************************)
Accessors == <<"title", "author", "length", "views", "description", "publish_date">>

InfoResult(ok, info, m, cs, r) ==
    [ok |-> ok, video_info |-> info, error_message |-> m, calls |-> cs, resolved |-> r]
\* the except of line 86, the last call of cs having raised
InfoFailed(cs, r) == InfoResult(FALSE, NoMeta, cs[Len(cs)].msg, cs, r)

\* the calls of the first k accessors of lines 78-83, all returning
AccessorCalls(on, k) == [i \in 1..k |-> Call(Accessors[i], on, "")]

\* lines 76-85, on the session of run r
InfoOn(r, v) ==
    LET on == r.yt
        first == Append(r.calls, Call("streams.first", on, ""))
    IN {InfoFailed(Append(r.calls, Raise("streams.first", on, "", m)), r) : m \in LibMessages}
       \cup {InfoFailed(first \o AccessorCalls(on, k - 1)
                              \o <<Raise(Accessors[k], on, "", m)>>, r)
                : k \in 1..Len(Accessors), m \in LibMessages}
       \cup {InfoResult(TRUE, v.meta, "", first \o AccessorCalls(on, Len(Accessors)), r)}

\* every run of get_video_info(url, po_token, visitor_data) on video v
get_video_info(url, po_token, visitor_data, v) ==
    UNION {IF r.ok THEN InfoOn(r, v)
           ELSE {InfoResult(FALSE, NoMeta, r.msg, r.calls, r)}
             : r \in get_yt_object(url, po_token, visitor_data)}

(***************************************************************************)
(* The handlers (main.py lines 93-164).                                    *)
(***************************************************************************)
MISSING_URL == "Missing 'url' parameter in the request body."
INVALID_URL == "Invalid YouTube URL."

Idle == [handler |-> "none", resolution |-> "", json |-> "null",
         url |-> PyNone, po_token |-> PyNone, visitor_data |-> PyNone]

\* JSON bodies: request.get_json() returns None or a list for the first two,
\* a dict for the third
NonObjectBodies ==
    {[json |-> j, url |-> PyNone, po_token |-> PyNone, visitor_data |-> PyNone]
        : j \in {"null", "array"}}

UrlValues ==
    {PyNone, PyStr(""), PyInt(0), PyInt(123),
     PyStr("not-a-url"), PyStr("https://youtu.be/abc123"),
     PyStr("https://www.youtube.com/watch?v=abc123"),
     PyStr("youtube.com/watch?v=a-b_1&t=10&v=zz"),
     PyStr("http://youtube.com/watch?v=abc\n")}

CredPairs ==
    {<<PyNone, PyNone>>, <<PyStr("po"), PyNone>>,
     <<PyStr(""), PyStr("vd")>>, <<PyStr("po"), PyStr("vd")>>}

Bodies ==
    NonObjectBodies
    \cup {[json |-> "object", url |-> u, po_token |-> c[1], visitor_data |-> c[2]]
            : u \in UrlValues, c \in CredPairs}

Resolutions == {"720p", "1080p"}

Request(h, resolution, data) ==
    [handler |-> h, resolution |-> resolution, json |-> data.json, url |-> data.url,
     po_token |-> data.po_token, visitor_data |-> data.visitor_data]

Response(status, kind, text) ==
    [status |-> status, kind |-> kind, text |-> text, info |-> NoMeta,
     progressive |-> <<>>, all |-> <<>>]
NoResponse == Response(0, "none", "")

\* The first lines of every handler (95-104, 115-124, 136-145): the exception
\* that escapes, the early return taken, or "pass".
\*   data.get on None or a list raises AttributeError;
\*   re.match on a url that is not a str raises TypeError.
Gate(data) ==
    IF data.json # "object" THEN "AttributeError"
    ELSE IF ~Truthy(data.url) THEN "missing"
    ELSE IF data.url.t # "str" THEN "TypeError"
    ELSE IF ~is_valid_youtube_url(data.url.s) THEN "invalid"
    ELSE "pass"

\* what the handler answers when Gate is not "pass"
GateResponse(g) ==
    CASE g = "missing" -> Response(400, "error", MISSING_URL)
      [] g = "invalid" -> Response(400, "error", INVALID_URL)
      [] OTHER -> Response(0, "escaped", g)

\* a faulty variant of EndsAtGate: the session is resolved before the url is
\* checked
ResolveBeforeGate(h, resolution, data) ==
    /\ Gate(data) # "pass"
    /\ request' = Request(h, resolution, data)
    /\ response' = GateResponse(Gate(data))
    /\ IF Gate(data) = "invalid"
       THEN \E r \in get_yt_object(data.url.s, data.po_token, data.visitor_data) :
                /\ calls' = r.calls
                /\ resolved' = r
       ELSE calls' = <<>> /\ resolved' = NoResolve
    /\ video' = NoVideo

\* the handler ends before any call is made
EndsAtGate(h, resolution, data) ==
    /\ Gate(data) # "pass"
    /\ request' = Request(h, resolution, data)
    /\ response' = GateResponse(Gate(data))
    /\ calls' = <<>>
    /\ resolved' = NoResolve
    /\ video' = NoVideo

\* what the library reports of the video once a session is resolved: its
\* streams (download, available_resolutions) or its metadata (video_info)
StreamVideos ==
    {[streams |-> ss, meta |-> NoMeta]
        : ss \in UNION {[1..n -> StreamKinds] : n \in 0..MaxStreams}}
MetaVideos == {[streams |-> <<>>, meta |-> m] : m \in Metas}
Reported(v, r) == IF r.ok THEN v ELSE NoVideo

\* POST /download/<resolution>
download_by_resolution ==
    /\ request = Idle
    /\ \E data \in Bodies, resolution \in Resolutions :
        \/ EndsAtGate("download", resolution, data)
        \/ /\ Gate(data) = "pass"
           /\ \E v \in StreamVideos :
              \E d \in download_video(data.url.s, resolution, data.po_token,
                                      data.visitor_data, v) :
                /\ request' = Request("download", resolution, data)
                /\ video' = Reported(v, d.resolved)
                /\ calls' = d.calls
                /\ resolved' = d.resolved
                /\ response' =
                     IF d.success
                     THEN Response(200, "message",
                            "Video with resolution " \o resolution \o " downloaded successfully.")
                     ELSE Response(500, "error", d.error_message)
    /\ UNCHANGED <<vurl, vresult>>

\* POST /video_info
video_info ==
    /\ request = Idle
    /\ \E data \in Bodies :
        \/ EndsAtGate("video_info", "", data)
        \/ /\ Gate(data) = "pass"
           /\ \E v \in MetaVideos :
              \E i \in get_video_info(data.url.s, data.po_token, data.visitor_data, v) :
                /\ request' = Request("video_info", "", data)
                /\ video' = Reported(v, i.resolved)
                /\ calls' = i.calls
                /\ resolved' = i.resolved
                /\ response' =
                     IF i.ok
                     THEN [Response(200, "info", "") EXCEPT !.info = i.video_info]
                     ELSE Response(500, "error", i.error_message)
    /\ UNCHANGED <<vurl, vresult>>

\* a faulty variant of ResolutionSet: `if stream.resolution` is left out
ResolutionSetUnfiltered(streams) ==
    {streams[i].resolution.s : i \in 1..Len(streams)}

\* lines 149-158: list(set([stream.resolution for stream in ... if stream.resolution]))
ResolutionSet(streams) ==
    {streams[i].resolution.s : i \in {j \in 1..Len(streams) : Truthy(streams[j].resolution)}}

\* sorted() of a set of str
RECURSIVE sorted(_)
sorted(S) ==
    IF S = {} THEN <<>>
    ELSE LET least == CHOOSE x \in S : \A y \in S \ {x} : StrLess(x, y)
         IN <<least>> \o sorted(S \ {least})

\* lines 147-164 of available_resolutions, on the session of run r
ResolutionsOn(r, v) ==
    LET on == r.yt
        listed == Append(r.calls, Call("streams.filter", on, "progressive mp4"))
        prog == sorted(ResolutionSet(FilterProgressiveMp4(v.streams)))
        every == sorted(ResolutionSet(FilterMp4(v.streams)))
    IN {[calls |-> Append(r.calls, Raise("streams.filter", on, "progressive mp4", m)),
         response |-> Response(500, "error", m)] : m \in LibMessages}
       \cup {[calls |-> Append(listed, Raise("streams.filter", on, "mp4", m)),
              response |-> Response(500, "error", m)] : m \in LibMessages}
       \cup {[calls |-> Append(listed, Call("streams.filter", on, "mp4")),
              response |-> [Response(200, "resolutions", "")
                               EXCEPT !.progressive = prog, !.all = every]]}

\* POST /available_resolutions
available_resolutions ==
    /\ request = Idle
    /\ \E data \in Bodies :
        \/ EndsAtGate("available_resolutions", "", data)
        \/ /\ Gate(data) = "pass"
           /\ \E v \in StreamVideos :
              \E r \in get_yt_object(data.url.s, data.po_token, data.visitor_data) :
              \E a \in (IF r.ok THEN ResolutionsOn(r, v)
                        ELSE {[calls |-> r.calls, response |-> Response(500, "error", r.msg)]}) :
                /\ request' = Request("available_resolutions", "", data)
                /\ video' = Reported(v, r)
                /\ calls' = a.calls
                /\ resolved' = r
                /\ response' = a.response
    /\ UNCHANGED <<vurl, vresult>>

\* the response is sent; nothing of the request is kept (no state between requests)
Finish ==
    /\ request # Idle
    /\ request' = Idle
    /\ video' = NoVideo
    /\ calls' = <<>>
    /\ resolved' = NoResolve
    /\ response' = NoResponse
    /\ UNCHANGED <<vurl, vresult>>

Init ==
    /\ request = Idle
    /\ video = NoVideo
    /\ calls = <<>>
    /\ resolved = NoResolve
    /\ response = NoResponse
    /\ vurl = ""
    /\ vresult = [done |-> FALSE, value |-> FALSE]

Next ==
    \/ download_by_resolution
    \/ video_info
    \/ available_resolutions
    \/ Finish

Spec == Init /\ [][Next]_vars

(***************************************************************************)
(* Properties of the handlers and the resolver, checked under Spec.        *)
(***************************************************************************)
Served == request # Idle

\* the indices of the calls that satisfy P, and of those the resolver made
CallsWhere(P(_)) == {k \in 1..Len(calls) : P(calls[k])}
ResolverCallsWhere(P(_)) == {k \in 1..Len(resolved.calls) : P(calls[k])}

IsConstruction(c) == c.op = "YouTube"
IsFallbackConstruction(c) == c.op = "YouTube" /\ c.on = "default"
IsStreamCall(c) == c.op \in {"streams.filter", "streams.filter.first", "streams.first",
                             "stream.download"}
IsWrite(c) == c.op \in {"os.makedirs", "stream.download"}

\* the urls of UrlValues that is_valid_youtube_url accepts
AcceptedUrls == {u.s : u \in {x \in UrlValues : x.t = "str" /\ is_valid_youtube_url(x.s)}}

\* a credential the caller supplied: a non-empty string
Supplied(v) == v.t = "str" /\ Len(v.s) > 0
BothCredentials == Supplied(request.po_token) /\ Supplied(request.visitor_data)

\* "bot" in any mix of cases somewhere in m
ContainsBotAnyCase(m) ==
    \E i \in 1..(Len(m) - 2) :
        /\ CharAt(m, i) \in {"b", "B"}
        /\ CharAt(m, i + 1) \in {"o", "O"}
        /\ CharAt(m, i + 2) \in {"t", "T"}

\* the calls of the WEB attempt that raised a bot-detection message
WebBotFailures == ResolverCallsWhere(LAMBDA c : c.on = "WEB" /\ c.raised /\ ContainsBotAnyCase(c.msg))
\* the first call of the resolver that raised (0 if none did)
FirstResolverFailure ==
    LET F == ResolverCallsWhere(LAMBDA c : c.raised)
    IN IF F = {} THEN 0 ELSE CHOOSE k \in F : \A j \in F : k <= j

C2_BotFallbackExactlyOnce ==
    (Served /\ resolved.called /\ ~BothCredentials /\ WebBotFailures # {}) =>
        /\ Cardinality(CallsWhere(IsFallbackConstruction)) = 1
        /\ Cardinality(CallsWhere(IsConstruction)) = 2
        /\ \A k \in CallsWhere(IsFallbackConstruction) :
             /\ \A b \in WebBotFailures : b < k
             /\ k = Len(resolved.calls)
             /\ IF calls[k].raised
                THEN ~resolved.ok /\ resolved.from = k /\ resolved.msg = calls[k].msg
                ELSE resolved.ok /\ resolved.yt = "default"
        /\ resolved.from \notin WebBotFailures

C2_Witness ==
    /\ resolved.ok /\ resolved.yt = "default"
    /\ \E k \in WebBotFailures : calls[k].op = "title" /\ calls[k].msg = "a BOT!"

\* C3: a default-identity session is constructed only when the credentials
\* were not both supplied and the WEB attempt raised a message containing
\* "bot"; in every other failure of the resolver (another message, or any
\* failure with both credentials supplied) the first error is raised to the
\* caller and no default-identity session is constructed.
C3_FallbackOnlyOnBotWithoutCredentials ==
    (Served /\ resolved.called) =>
        /\ CallsWhere(IsFallbackConstruction) # {} =>
                ~BothCredentials /\ WebBotFailures # {}
        /\ (FirstResolverFailure # 0
             /\ (BothCredentials \/ ~ContainsBotAnyCase(calls[FirstResolverFailure].msg))) =>
                /\ CallsWhere(IsFallbackConstruction) = {}
                /\ ~resolved.ok
                /\ resolved.from = FirstResolverFailure
                /\ resolved.msg = calls[FirstResolverFailure].msg
                /\ Len(resolved.calls) = FirstResolverFailure

C3_Witness ==
    /\ BothCredentials
    /\ resolved.called /\ ~resolved.ok /\ resolved.from > 0
    /\ calls[resolved.from].on = "manual"
    /\ ContainsBotAnyCase(resolved.msg)

\* C5: for a valid url whose session resolves, when the lookup returns no
\* progressive mp4 stream at the requested resolution, POST /download answers
\* 500 with exactly "Video with the specified resolution not found.".
C5_NotFoundReported ==
    (/\ request.handler = "download"
     /\ resolved.ok
     /\ \E k \in 1..Len(calls) : calls[k].op = "streams.filter.first" /\ ~calls[k].raised
     /\ ~\E i \in 1..Len(video.streams) :
            /\ video.streams[i].progressive
            /\ video.streams[i].ext = "mp4"
            /\ video.streams[i].resolution = PyStr(request.resolution))
    => response = Response(500, "error", NOT_FOUND)

\* C6: for a valid url whose session resolves, when no metadata accessor
\* raises, POST /video_info answers 200 with the six values the library
\* reports; no other library operation decides the response.
C6_InfoDependsOnAccessorsOnly ==
    (/\ request.handler = "video_info"
     /\ resolved.ok
     /\ ~\E k \in 1..Len(calls) :
            /\ k > Len(resolved.calls)
            /\ calls[k].op \in {Accessors[i] : i \in 1..Len(Accessors)}
            /\ calls[k].raised)
    => /\ response.status = 200
       /\ response.kind = "info"
       /\ response.info = video.meta

\* the value of the v= parameter of a validated url: the word characters and
\* hyphens that follow the first "v="
VideoId(url) ==
    LET i == CHOOSE j \in 1..Len(url) :
                /\ SubSeq(url, j, j + 1) = "v="
                /\ \A k \in 1..(j - 1) : SubSeq(url, k, k + 1) # "v="
        n == CHOOSE m \in 0..(Len(url) - i - 1) :
                /\ \A k \in 1..m : IsTokenChar(CharAt(url, i + 1 + k))
                /\ (i + 1 + m = Len(url) \/ ~IsTokenChar(CharAt(url, i + 2 + m)))
    IN SubSeq(url, i + 2, i + 1 + n)

\* C7: one download call creates the directory at most once and downloads at
\* most once, only after the lookup found a progressive mp4 stream at the
\* requested resolution, and only at downloads/<video-id>, <video-id> being
\* the token of the url's v= parameter; when the session does not resolve or
\* nothing matches, nothing is created or written.
C7_OneWriteLocationPerCall ==
    request.handler = "download" =>
        /\ Cardinality(CallsWhere(LAMBDA c : c.op = "os.makedirs")) <= 1
        /\ Cardinality(CallsWhere(LAMBDA c : c.op = "stream.download")) <= 1
        /\ \A k \in CallsWhere(IsWrite) :
             /\ resolved.ok
             /\ \E j \in 1..(k - 1) : calls[j].op = "streams.filter.first" /\ ~calls[j].raised
             /\ \E i \in 1..Len(video.streams) :
                    /\ video.streams[i].progressive
                    /\ video.streams[i].ext = "mp4"
                    /\ video.streams[i].resolution = PyStr(request.resolution)
             /\ calls[k].arg = "./downloads/" \o VideoId(request.url.s)

\* a precedes b in the lexicographic order of their code points
Precedes(a, b) ==
    \E i \in 1..(Len(b)) :
        /\ SubSeq(a, 1, i - 1) = SubSeq(b, 1, i - 1)
        /\ Len(a) >= i - 1
        /\ (Len(a) = i - 1 \/ Ord(CharAt(a, i)) < Ord(CharAt(b, i)))

\* the non-empty labels of the streams of v that satisfy P
LabelsOf(v, P(_)) ==
    {v.streams[i].resolution.s :
        i \in {j \in 1..Len(v.streams) :
                 /\ P(v.streams[j])
                 /\ v.streams[j].resolution.t = "str"
                 /\ v.streams[j].resolution.s # ""}}

StrictlyAscending(list) == \A i \in 1..(Len(list) - 1) : Precedes(list[i], list[i + 1])
Elements(list) == {list[i] : i \in 1..Len(list)}

\* C8: the two lists of a 200 answer of /available_resolutions are strictly
\* ascending in lexicographic order (sorted, no label twice) and hold exactly
\* the non-empty labels of the progressive mp4 streams and of all mp4
\* streams; a stream without a label adds nothing to either.
C8_ResolutionsSortedDeduplicated ==
    (request.handler = "available_resolutions" /\ response.status = 200) =>
        /\ StrictlyAscending(response.progressive)
        /\ StrictlyAscending(response.all)
        /\ Elements(response.progressive)
             = LabelsOf(video, LAMBDA st : st.progressive /\ st.ext = "mp4")
        /\ Elements(response.all) = LabelsOf(video, LAMBDA st : st.ext = "mp4")
        /\ "" \notin Elements(response.progressive) \cup Elements(response.all)

C8_Witness ==
    /\ request.handler = "available_resolutions"
    /\ video.streams = <<Stream(TRUE, "mp4", PyStr("720p")), Stream(TRUE, "mp4", PyStr("720p")),
                         Stream(TRUE, "mp4", PyStr("480p"))>>
    /\ response.progressive = <<"480p", "720p">>
    /\ response.all = <<"480p", "720p">>

\* C9: every request gets exactly one response from the handler, 200, or 400
\* with an error, or 500 with an error; no exception escapes the handler, and
\* a library failure that ends the handler is answered 500 with its message.
C9_EveryRequestAnswered ==
    Served =>
        /\ response.kind # "escaped"
        /\ response.status \in {200, 400, 500}
        /\ response.status \in {400, 500} => response.kind = "error"
        /\ (calls # <<>> /\ calls[Len(calls)].raised) =>
                response = Response(500, "error", calls[Len(calls)].msg)

\* the session the resolver returned was probed: its title was read, and
\* returned, before the resolver returned
Probed == \E k \in 1..Len(resolved.calls) :
              calls[k].op = "title" /\ calls[k].on = resolved.yt /\ ~calls[k].raised

\* C10 as stated: every session the resolver returns, on all three paths, has
\* had its title read successfully before the return, so no stream call is
\* made on an unprobed session.
C10_EveryReturnedSessionProbed ==
    (Served /\ resolved.ok) =>
        /\ Probed
        /\ \A k \in CallsWhere(IsStreamCall) :
             \E j \in 1..(k - 1) :
                calls[j].op = "title" /\ calls[j].on = calls[k].on /\ ~calls[j].raised

\* C10 as amended: a session returned on the explicit-credentials path or the
\* WEB path has had its title read successfully before the return, and every
\* stream call on such a session follows that read; the default-identity
\* fallback session is returned without a probe.
C10_ManualAndWebSessionsProbed ==
    (Served /\ resolved.ok) =>
        /\ resolved.yt \in {"manual", "WEB"} => Probed
        /\ resolved.yt = "default" => ~Probed
        /\ \A k \in CallsWhere(IsStreamCall) :
             calls[k].on \in {"manual", "WEB"} =>
                \E j \in 1..(k - 1) :
                    calls[j].op = "title" /\ calls[j].on = calls[k].on /\ ~calls[j].raised

C10_Witness ==
    /\ resolved.ok /\ resolved.yt = "WEB"
    /\ \E k \in CallsWhere(IsStreamCall) : calls[k].on = "WEB"

(***************************************************************************)
(* Validator harness: is_valid_youtube_url applied to bounded strings.     *)
(***************************************************************************)
TailAlphabet == {"a", "_", "-", "&", " ", "\n", "="}

RECURSIVE Tails(_)
Tails(n) == IF n = 0 THEN {""}
            ELSE LET shorter == Tails(n - 1)
                 IN shorter \cup {s \o c : s \in shorter, c \in TailAlphabet}

TestStrings ==
    LET tails == Tails(MaxTail)
    IN {p \o sch \o w \o host \o tail :
            p \in {"", "x"},
            sch \in {"", "http://", "https://", "ftp://"},
            w \in {"", "www.", "m."},
            host \in {"youtube.com/watch?v=", "youtubeXcom/watch?v=",
                      "youtube.com/watchXv=", "youtu.be/"},
            tail \in tails}

InitValidator ==
    /\ vurl \in TestStrings
    /\ vresult = [done |-> FALSE, value |-> FALSE]
    /\ request = Idle
    /\ video = NoVideo
    /\ calls = <<>>
    /\ resolved = NoResolve
    /\ response = NoResponse

Validate ==
    /\ ~vresult.done
    /\ vresult' = [done |-> TRUE, value |-> is_valid_youtube_url(vurl)]
    /\ UNCHANGED <<request, video, calls, resolved, response, vurl>>

NextValidator == Validate

SpecValidator == InitValidator /\ [][NextValidator]_vars

\* The shape of section 4.1: optional scheme, optional www., host youtube.com,
\* path /watch, v=<token>, optionally & and further non-blank query content,
\* and nothing else.
MatchesShape(s) ==
    \E scheme \in {"", "http://", "https://"}, www \in {"", "www."} :
        LET head == scheme \o www \o "youtube.com/watch?v="
            rest == SubSeq(s, Len(head) + 1, Len(s))
        IN /\ Len(s) > Len(head)
           /\ SubSeq(s, 1, Len(head)) = head
           /\ \E k \in 1..Len(rest) :
                /\ \A i \in 1..k : IsTokenChar(CharAt(rest, i))
                /\ \/ k = Len(rest)
                   \/ /\ CharAt(rest, k + 1) = "&"
                      /\ \A i \in (k + 2)..Len(rest) : ~IsSpace(CharAt(rest, i))

\* C4: is_valid_youtube_url returns true exactly for the strings of the shape
\* (optional scheme) (optional www.) youtube.com/watch?v=<token>[&...].
C4_ValidatorMatchesShape ==
    vresult.done => (vresult.value <=> MatchesShape(vurl))

====
